---- MODULE Spec2Model ----
(***************************************************************************)
(* Model of map_visualizer.py: create_measurement_map and save_map.        *)
(*                                                                         *)
(* A call of create_measurement_map is a process whose position pc walks   *)
(* through the statements of the function.  The objects it touches are     *)
(* pyplot's figure registry (figs), pyplot's current figure (gcf), the     *)
(* axes objects (axs), the files written by savefig (files) and the        *)
(* console (stdout).  Floating point numbers are modelled as exact         *)
(* rationals [num, den]; strings the code transforms are sequences of      *)
(* one-character strings.                                                  *)
(***************************************************************************)
EXTENDS Integers, Sequences, FiniteSets, TLC

VARIABLES call, figs, axs, gcf, files, stdout, cm

vars == <<call, figs, axs, gcf, files, stdout, cm>>

(* ------------------------------ bounds --------------------------------- *)
MaxPoints == 2
MaxCoord == 1
MaxValue == 2
MaxPad == 1
NormRes == 255

Calls == {1, 2}

(* --------------------------- exact rationals --------------------------- *)
Rat(n, d) == [num |-> n, den |-> d]

FromInt(n) == Rat(n, 1)

RSub(a, b) == Rat(a.num * b.den - b.num * a.den, a.den * b.den)

RAdd(a, b) == Rat(a.num * b.den + b.num * a.den, a.den * b.den)

\* a < b, a <= b for rationals with positive denominators (numerators are
\* compared directly when the denominators agree)
RLess(a, b) == IF a.den = b.den THEN a.num < b.num ELSE a.num * b.den < b.num * a.den

RLeq(a, b) == IF a.den = b.den THEN a.num <= b.num ELSE a.num * b.den <= b.num * a.den

(* ------------------------- min / max of a list ------------------------- *)
Range(s) == {s[i] : i \in DOMAIN s}

Min(s) == CHOOSE m \in Range(s) : \A y \in Range(s) : m <= y

Max(s) == CHOOSE m \in Range(s) : \A y \in Range(s) : m >= y

(* ------------------------ viewport, lines 39-49 ------------------------ *)
MetersPerDegree == 111000

Padding(padding_meters) == Rat(padding_meters, MetersPerDegree)

Column(points, key) == [i \in DOMAIN points |-> points[i][key]]

\* faulty variant: max_lat copied from min_lat with the sign left as it was
BoundsCopyPaste(points, padding_meters) ==
    LET measurement_lats == Column(points, "lat")
        measurement_lons == Column(points, "lon")
        padding == Padding(padding_meters)
    IN  [min_lat |-> RSub(FromInt(Min(measurement_lats)), padding),
         max_lat |-> RSub(FromInt(Max(measurement_lats)), padding),
         min_lon |-> RSub(FromInt(Min(measurement_lons)), padding),
         max_lon |-> RAdd(FromInt(Max(measurement_lons)), padding)]

Bounds(points, padding_meters) ==
    LET measurement_lats == Column(points, "lat")
        measurement_lons == Column(points, "lon")
        padding == Padding(padding_meters)
    IN  [min_lat |-> RSub(FromInt(Min(measurement_lats)), padding),
         max_lat |-> RAdd(FromInt(Max(measurement_lats)), padding),
         min_lon |-> RSub(FromInt(Min(measurement_lons)), padding),
         max_lon |-> RAdd(FromInt(Max(measurement_lons)), padding)]

Extent(b) == <<b.min_lon, b.max_lon, b.min_lat, b.max_lat>>

(* --------------------- field resolution, lines 74-82 ------------------- *)
UpperToLower ==
    [A |-> "a", B |-> "b", C |-> "c", D |-> "d", E |-> "e", F |-> "f",
     G |-> "g", H |-> "h", I |-> "i", J |-> "j", K |-> "k", L |-> "l",
     M |-> "m", N |-> "n", O |-> "o", P |-> "p", Q |-> "q", R |-> "r",
     S |-> "s", T |-> "t", U |-> "u", V |-> "v", W |-> "w", X |-> "x",
     Y |-> "y", Z |-> "z"]

\* str.lower()
Lower(s) ==
    [i \in DOMAIN s |-> IF s[i] \in DOMAIN UpperToLower THEN UpperToLower[s[i]] ELSE s[i]]

\* str.replace(old, new) for one-character old and new
Replace(s, old, new) == [i \in DOMAIN s |-> IF s[i] = old THEN new ELSE s[i]]

RECURSIVE Join(_)
Join(s) == IF s = <<>> THEN "" ELSE Head(s) \o Join(Tail(s))

DeriveField(value_title) == Join(Replace(Lower(value_title), " ", "_"))

FallbackFields == <<"value", "latency", "throughput", "rtt", "delay">>

NotFound == "<ValueError>"

\* faulty variant: no else branch on the loop, 'value' assumed when nothing matches
RECURSIVE ProbeDefault(_, _)
ProbeDefault(i, first) ==
    IF i > Len(FallbackFields) THEN "value"
    ELSE IF FallbackFields[i] \in DOMAIN first THEN FallbackFields[i]
    ELSE ProbeDefault(i + 1, first)

\* faulty variant: no break in the loop, the last matching name wins
RECURSIVE ProbeNoBreak(_, _)
ProbeNoBreak(i, first) ==
    IF i > Len(FallbackFields) THEN NotFound
    ELSE LET later == ProbeNoBreak(i + 1, first)
         IN  IF later # NotFound THEN later
             ELSE IF FallbackFields[i] \in DOMAIN first THEN FallbackFields[i]
             ELSE NotFound

\* the for ... else loop of lines 77-82, from position i of the list
RECURSIVE Probe(_, _)
Probe(i, first) ==
    IF i > Len(FallbackFields) THEN NotFound
    ELSE IF FallbackFields[i] \in DOMAIN first THEN FallbackFields[i]
    ELSE Probe(i + 1, first)

ResolveField(value_title, first) ==
    LET value_field == DeriveField(value_title)
    IN  IF value_field \notin DOMAIN first THEN Probe(1, first) ELSE value_field

(* --------------------- colour mapping, lines 91-95 --------------------- *)
\* red channel (0..255) of the eleven anchors of matplotlib's RdYlBu_r,
\* the reversed ColorBrewer RdYlBu scale: blue at 0.0, yellow at 0.5, red at 1.0
RdYlBu_r_red == <<49, 69, 116, 171, 224, 255, 254, 253, 244, 215, 165>>

LutSize == 256

\* Colormap.__call__ on a float in [0, 1]: int(x * N), with x = 1 mapped to N - 1
LutIndex(x) ==
    LET i == (x.num * LutSize) \div x.den
    IN  IF i >= LutSize THEN LutSize - 1 ELSE i

\* faulty variant: the anchor interval is taken one too far to the right
SegmentOffByOne(i) ==
    LET k == (10 * i) \div (LutSize - 1) + 1
    IN  IF k > 10 THEN 10 ELSE k

Segment(i) == (10 * i) \div (LutSize - 1)

\* red channel of lookup-table entry i, in units of 1/(255 * 255): the linear
\* interpolation of the anchors at the sample point i / 255
Red(i) ==
    LET k == Segment(i)
        f == 10 * i - (LutSize - 1) * k
    IN  IF k >= 10 THEN (LutSize - 1) * RdYlBu_r_red[11]
        ELSE (LutSize - 1) * RdYlBu_r_red[k + 1]
             + f * (RdYlBu_r_red[k + 2] - RdYlBu_r_red[k + 1])

(* ------------------------------- inputs -------------------------------- *)
Coords == 0..MaxCoord

Values == 0..MaxValue

Paddings == (-1)..MaxPad

DefaultPadding == 20

\* field names a measurement point may carry besides lat and lon
FieldNames == {"value", "latency", "throughput", "rtt", "delay", "signal_strength"}

Titles ==
    {<<"V", "a", "l", "u", "e">>,
     <<"L", "a", "t", "e", "n", "c", "y">>,
     <<"F", "o", "o">>,
     <<"S", "i", "g", "n", "a", "l", " ", "S", "t", "r", "e", "n", "g", "t", "h">>}

\* a measurement point: a dictionary with lat, lon and the fields of keys,
\* every one of them carrying the scalar v
Point(la, lo, keys, v) ==
    [k \in {"lat", "lon"} \cup keys |->
        IF k = "lat" THEN la ELSE IF k = "lon" THEN lo ELSE v]

Input(points, value_title, value_unit, padding_meters) ==
    [measurement_points |-> points, title |-> "Map", value_title |-> value_title,
     value_unit |-> value_unit, padding_meters |-> padding_meters]

\* point clouds of every shape, any padding; values 1, 2, ... in list order
InputsView ==
    {Input([i \in 1..n |-> Point(pos[i][1], pos[i][2], {"value"}, i)],
           <<"V", "a", "l", "u", "e">>, "", pad) :
        <<n, pos, pad>> \in
            UNION {{<<m, p, q>> : p \in [1..m -> Coords \X Coords], q \in Paddings} :
                   m \in 1..MaxPoints}}

\* every key set on the first and on the second record, every title
InputsFields ==
    {Input(<<Point(0, 0, k1, 1), Point(1, 1, k2, 2)>>, t, "ms", DefaultPadding) :
        <<k1, k2, t>> \in (SUBSET FieldNames) \X (SUBSET FieldNames) \X Titles}

\* every list of values, the empty list included
InputsValues ==
    {Input([i \in 1..n |-> Point(i, 0, {"latency"}, vs[i])],
           <<"L", "a", "t", "e", "n", "c", "y">>, u, DefaultPadding) :
        <<n, vs, u>> \in
            UNION {{<<m, w, x>> : w \in [1..m -> Values], x \in {"", "ms"}} :
                   m \in 0..MaxPoints}}

Inputs == InputsView \cup InputsFields \cup InputsValues

\* the inputs of two concurrent calls
InputsConcurrent ==
    {Input([i \in 1..n |-> Point(i, i, {"value"}, i)], <<"V", "a", "l", "u", "e">>, "", DefaultPadding) :
        n \in 0..MaxPoints}
    \cup {Input(<<Point(0, 0, {}, 1)>>, <<"F", "o", "o">>, "", DefaultPadding)}

\* the paths save_map is called with: the environment decides whether the
\* directory is writable, the extension whether savefig knows the format
Filenames ==
    {[name |-> "map.png", writable |-> TRUE, supported |-> TRUE],
     [name |-> "/missing/map.png", writable |-> FALSE, supported |-> TRUE],
     [name |-> "map.xyz", writable |-> TRUE, supported |-> FALSE]}

(* ------------------------------- state --------------------------------- *)
NoBounds == [min_lat |-> Rat(0, 1), max_lat |-> Rat(0, 1),
             min_lon |-> Rat(0, 1), max_lon |-> Rat(0, 1)]

NoColor == [a |-> Rat(0, 1), b |-> Rat(0, 1), red_a |-> 0, red_b |-> 0, done |-> FALSE]

NoFile == [name |-> "", writable |-> FALSE, supported |-> FALSE]

\* the locals of one call: fig = 0 and ax = 0 mean not yet created
NewCall(in, start) ==
    [pc |-> start, in |-> in, fig |-> 0, ax |-> 0, bounds |-> NoBounds,
     value_field |-> "", min_value |-> 0, max_value |-> 0, i |-> 1,
     layout_fig |-> 0, ret |-> 0, err |-> "", filename |-> NoFile,
     trace |-> <<>>]

NewFigure == [axes |-> <<>>, tight |-> FALSE]

NewAxes(f, kind) ==
    [figure |-> f, kind |-> kind, extent |-> <<>>, img_factories |-> 0,
     images |-> <<>>, facecolor |-> "", markers |-> <<>>, title |-> <<>>,
     norm |-> <<>>, label |-> <<>>, texts |-> <<>>]

IdleInput == Input(<<>>, <<>>, "", 0)

InitShared ==
    /\ figs = <<>>
    /\ axs = <<>>
    /\ gcf = 0
    /\ files = {}
    /\ stdout = <<>>

Init ==
    /\ \E in \in Inputs :
          call = [c \in Calls |-> IF c = 1 THEN NewCall(in, "figure")
                                  ELSE NewCall(IdleInput, "idle")]
    /\ InitShared
    /\ cm = NoColor

InitConcurrent ==
    /\ call \in [Calls -> {NewCall(in, "figure") : in \in InputsConcurrent}]
    /\ InitShared
    /\ cm = NoColor

(* ------------------------------ actions -------------------------------- *)
Goto(c, label, step) ==
    [call[c] EXCEPT !.pc = label, !.trace = Append(@, step)]

Raise(c, kind) == [call[c] EXCEPT !.pc = "raised", !.err = kind]

\* line 36: fig = plt.figure(figsize=figsize); the new figure becomes current
Figure(c) ==
    /\ call[c].pc = "figure"
    /\ figs' = Append(figs, NewFigure)
    /\ gcf' = Len(figs) + 1
    /\ call' = [call EXCEPT ![c] = [Goto(c, "axes", "figure") EXCEPT !.fig = Len(figs) + 1]]
    /\ UNCHANGED <<axs, files, stdout, cm>>

\* line 37: ax = plt.axes(projection=...); pyplot adds the axes to its current figure
Axes(c) ==
    /\ call[c].pc = "axes"
    /\ axs' = Append(axs, NewAxes(gcf, "geo"))
    /\ figs' = [figs EXCEPT ![gcf].axes = Append(@, Len(axs) + 1)]
    /\ call' = [call EXCEPT ![c] = [Goto(c, "bounds", "axes") EXCEPT !.ax = Len(axs) + 1]]
    /\ UNCHANGED <<gcf, files, stdout, cm>>

\* faulty variant: min(..., default=0), so an empty list no longer raises here
ComputeBoundsDefault(c) ==
    /\ call[c].pc = "bounds"
    /\ call' = [call EXCEPT ![c] =
          IF call[c].in.measurement_points = <<>> THEN Goto(c, "set_extent", "bounds")
          ELSE [Goto(c, "set_extent", "bounds") EXCEPT
                   !.bounds = Bounds(call[c].in.measurement_points, call[c].in.padding_meters)]]
    /\ UNCHANGED <<figs, axs, gcf, files, stdout, cm>>

\* lines 40-49: min() of an empty list raises ValueError
ComputeBounds(c) ==
    /\ call[c].pc = "bounds"
    /\ call' = [call EXCEPT ![c] =
          IF call[c].in.measurement_points = <<>> THEN Raise(c, "ValueError")
          ELSE [Goto(c, "set_extent", "bounds") EXCEPT
                   !.bounds = Bounds(call[c].in.measurement_points, call[c].in.padding_meters)]]
    /\ UNCHANGED <<figs, axs, gcf, files, stdout, cm>>

\* line 52
SetExtent(c) ==
    /\ call[c].pc = "set_extent"
    /\ axs' = [axs EXCEPT ![call[c].ax].extent = Extent(call[c].bounds)]
    /\ call' = [call EXCEPT ![c] = Goto(c, "add_image", "set_extent")]
    /\ UNCHANGED <<figs, gcf, files, stdout, cm>>

\* lines 55-62: the tile layer is requested; whether the library realises the
\* tile image at once or only when the figure is drawn is the library's choice
AddImage(c) ==
    /\ call[c].pc = "add_image"
    /\ \E realised \in BOOLEAN :
          axs' = [axs EXCEPT ![call[c].ax].img_factories = @ + 1,
                             ![call[c].ax].images =
                                 IF realised THEN Append(@, [cmap |-> "native", clim |-> <<>>])
                                 ELSE @]
    /\ call' = [call EXCEPT ![c] = Goto(c, "grayscale", "add_image")]
    /\ UNCHANGED <<figs, gcf, files, stdout, cm>>

\* lines 65-71: white background, every image of the axes forced to grayscale
Grayscale(c) ==
    /\ call[c].pc = "grayscale"
    /\ axs' = [axs EXCEPT ![call[c].ax].facecolor = "white",
                          ![call[c].ax].images =
                              [j \in DOMAIN @ |-> [cmap |-> "gray", clim |-> <<0, 1>>]]]
    /\ call' = [call EXCEPT ![c] = Goto(c, "resolve", "grayscale")]
    /\ UNCHANGED <<figs, gcf, files, stdout, cm>>

\* lines 74-82: measurement_points[0] raises IndexError on an empty list
Resolve(c) ==
    /\ call[c].pc = "resolve"
    /\ call' = [call EXCEPT ![c] =
          IF call[c].in.measurement_points = <<>> THEN Raise(c, "IndexError")
          ELSE LET value_field == ResolveField(call[c].in.value_title,
                                               call[c].in.measurement_points[1])
               IN  IF value_field = NotFound THEN Raise(c, "ValueError")
                   ELSE [Goto(c, "values", "resolve") EXCEPT !.value_field = value_field]]
    /\ UNCHANGED <<figs, axs, gcf, files, stdout, cm>>

\* line 84: point[value_field] raises KeyError for a record without the field
HasField(points, value_field) == \A j \in DOMAIN points : value_field \in DOMAIN points[j]

\* faulty variant: the records are validated and the failure reported as ValueError
ExtractValuesValueError(c) ==
    /\ call[c].pc = "values"
    /\ LET points == call[c].in.measurement_points
           value_field == call[c].value_field
       IN  call' = [call EXCEPT ![c] =
              IF ~HasField(points, value_field) THEN Raise(c, "ValueError")
              ELSE LET all_values == Column(points, value_field)
                   IN  [Goto(c, "scatter", "values") EXCEPT
                           !.min_value = Min(all_values), !.max_value = Max(all_values)]]
    /\ UNCHANGED <<figs, axs, gcf, files, stdout, cm>>

\* lines 84-86
ExtractValues(c) ==
    /\ call[c].pc = "values"
    /\ LET points == call[c].in.measurement_points
           value_field == call[c].value_field
       IN  call' = [call EXCEPT ![c] =
              IF ~HasField(points, value_field) THEN Raise(c, "KeyError")
              ELSE LET all_values == Column(points, value_field)
                   IN  [Goto(c, "scatter", "values") EXCEPT
                           !.min_value = Min(all_values), !.max_value = Max(all_values)]]
    /\ UNCHANGED <<figs, axs, gcf, files, stdout, cm>>

\* line 91, for max_value # min_value
Normalize(v, min_value, max_value) == Rat(v - min_value, max_value - min_value)

MarkerSize == 60

\* faulty variant: the loop stops one record early
LoopDoneEarly(i, points) == i + 1 >= Len(points)

\* the for loop of line 89 is over once every record has had its iteration
LoopDone(i, points) == i >= Len(points)

\* lines 89-103, iteration i: dividing by a zero range raises ZeroDivisionError
Scatter(c) ==
    /\ call[c].pc = "scatter"
    /\ LET points == call[c].in.measurement_points
           measurement == points[call[c].i]
           v == measurement[call[c].value_field]
       IN  IF call[c].max_value - call[c].min_value = 0
           THEN /\ call' = [call EXCEPT ![c] = Raise(c, "ZeroDivisionError")]
                /\ UNCHANGED axs
           ELSE LET normalized_value == Normalize(v, call[c].min_value, call[c].max_value)
                    color == LutIndex(normalized_value)
                IN  /\ axs' = [axs EXCEPT ![call[c].ax].markers =
                                  Append(@, [lon |-> measurement["lon"], lat |-> measurement["lat"],
                                             s |-> MarkerSize, c |-> color])]
                    /\ call' = [call EXCEPT ![c] =
                          [Goto(c, IF LoopDone(call[c].i, points) THEN "title" ELSE "scatter",
                                "marker")
                              EXCEPT !.i = @ + 1]]
    /\ UNCHANGED <<figs, gcf, files, stdout, cm>>

\* lines 106-107
Title(c) ==
    /\ call[c].pc = "title"
    /\ axs' = [axs EXCEPT ![call[c].ax].title = <<call[c].in.title, call[c].in.value_title>>]
    /\ call' = [call EXCEPT ![c] = Goto(c, "colorbar", "title")]
    /\ UNCHANGED <<figs, gcf, files, stdout, cm>>

\* lines 115-118
CbarLabel(value_title, value_unit) ==
    IF value_unit # "" THEN <<value_title, value_unit, "Red=High, Blue=Low">>
    ELSE <<value_title, "Red=High, Blue=Low">>

\* lines 110-121: plt.colorbar(sm, ax=ax) puts the colorbar axes beside ax,
\* in the figure that holds ax
Colorbar(c) ==
    /\ call[c].pc = "colorbar"
    /\ LET host == axs[call[c].ax].figure
           cax == [NewAxes(host, "colorbar") EXCEPT
                      !.norm = <<call[c].min_value, call[c].max_value>>,
                      !.label = CbarLabel(call[c].in.value_title, call[c].in.value_unit)]
       IN  /\ axs' = Append(axs, cax)
           /\ figs' = [figs EXCEPT ![host].axes = Append(@, Len(axs) + 1)]
    /\ call' = [call EXCEPT ![c] = Goto(c, "stats", "colorbar")]
    /\ UNCHANGED <<gcf, files, stdout, cm>>

\* lines 124-134
Stats(c) ==
    /\ call[c].pc = "stats"
    /\ axs' = [axs EXCEPT ![call[c].ax].texts =
                  Append(@, [total_measurements |-> Len(call[c].in.measurement_points),
                             min_value |-> call[c].min_value,
                             max_value |-> call[c].max_value,
                             value_unit |-> call[c].in.value_unit])]
    /\ call' = [call EXCEPT ![c] = Goto(c, "layout", "stats")]
    /\ UNCHANGED <<figs, gcf, files, stdout, cm>>

\* line 136: plt.tight_layout() lays out pyplot's current figure
Layout(c) ==
    /\ call[c].pc = "layout"
    /\ figs' = [figs EXCEPT ![gcf].tight = TRUE]
    /\ call' = [call EXCEPT ![c] = [Goto(c, "return", "layout") EXCEPT !.layout_fig = gcf]]
    /\ UNCHANGED <<axs, gcf, files, stdout, cm>>

\* line 137
Return(c) ==
    /\ call[c].pc = "return"
    /\ call' = [call EXCEPT ![c] = [call[c] EXCEPT !.pc = "done", !.ret = call[c].fig]]
    /\ UNCHANGED <<figs, axs, gcf, files, stdout, cm>>

(* ------------------------- save_map, lines 140-155 --------------------- *)
\* what fig.savefig does with the path: "" for a written file, else the error
SavefigError(filename) ==
    IF ~filename.supported THEN "ValueError"
    ELSE IF ~filename.writable THEN "OSError"
    ELSE ""

\* faulty variant: the failure of savefig is swallowed and save_map carries on
SavefigSwallow(c) ==
    /\ call[c].pc = "done"
    /\ \E filename \in Filenames :
          /\ files' = IF SavefigError(filename) # "" THEN files
                      ELSE files \cup {[name |-> filename.name, fig |-> call[c].ret]}
          /\ call' = [call EXCEPT ![c] =
                [call[c] EXCEPT !.pc = "print", !.filename = filename]]
    /\ UNCHANGED <<figs, axs, gcf, stdout, cm>>

\* lines 153-154, on the figure the call returned
Savefig(c) ==
    /\ call[c].pc = "done"
    /\ \E filename \in Filenames :
          IF SavefigError(filename) # ""
          THEN /\ call' = [call EXCEPT ![c] =
                     [call[c] EXCEPT !.pc = "save_raised", !.err = SavefigError(filename),
                                     !.filename = filename]]
               /\ UNCHANGED files
          ELSE /\ files' = files \cup {[name |-> filename.name, fig |-> call[c].ret]}
               /\ call' = [call EXCEPT ![c] =
                     [call[c] EXCEPT !.pc = "print", !.filename = filename]]
    /\ UNCHANGED <<figs, axs, gcf, stdout, cm>>

\* line 155
PrintSaved(c) ==
    /\ call[c].pc = "print"
    /\ stdout' = Append(stdout, <<"Map saved as", call[c].filename.name>>)
    /\ call' = [call EXCEPT ![c].pc = "saved"]
    /\ UNCHANGED <<figs, axs, gcf, files, cm>>

(* --------------------------- specifications ---------------------------- *)
Step(c) ==
    \/ Figure(c)
    \/ Axes(c)
    \/ ComputeBounds(c)
    \/ SetExtent(c)
    \/ AddImage(c)
    \/ Grayscale(c)
    \/ Resolve(c)
    \/ ExtractValues(c)
    \/ Scatter(c)
    \/ Title(c)
    \/ Colorbar(c)
    \/ Stats(c)
    \/ Layout(c)
    \/ Return(c)
    \/ Savefig(c)
    \/ PrintSaved(c)

\* one call, then save_map on its figure, as main.py does
Next == Step(1)

Spec == Init /\ [][Next]_vars

\* the colour scale on its own: two normalized values a, b in [0, 1] are looked
\* up as line 95 looks up normalized_value
InitColor ==
    /\ call = [c \in Calls |-> NewCall(IdleInput, "idle")]
    /\ InitShared
    /\ \E x, y \in 0..NormRes :
          cm = [NoColor EXCEPT !.a = Rat(x, NormRes), !.b = Rat(y, NormRes)]

Colorize ==
    /\ ~cm.done
    /\ cm' = [cm EXCEPT !.red_a = Red(LutIndex(cm.a)), !.red_b = Red(LutIndex(cm.b)),
                        !.done = TRUE]
    /\ UNCHANGED <<call, figs, axs, gcf, files, stdout>>

NextColor == Colorize

SpecColor == InitColor /\ [][NextColor]_vars

\* two calls whose statements interleave
NextConcurrent == \E c \in Calls : Step(c)

SpecConcurrent == InitConcurrent /\ [][NextConcurrent]_vars

(* ------------------------------ properties ----------------------------- *)
Started(c) == call[c].pc # "idle"

PointsOf(c) == call[c].in.measurement_points

Returned(c) == call[c].pc \in {"done", "print", "saved", "save_raised"}

\* the field-resolution rule as the specification words it: one pass over the
\* title, then the lowest-ranked common name the first record carries
RefChar(ch) ==
    IF ch = " " THEN "_"
    ELSE IF ch \in DOMAIN UpperToLower THEN UpperToLower[ch]
    ELSE ch

RECURSIVE RefDerive(_)
RefDerive(t) == IF t = <<>> THEN "" ELSE RefChar(Head(t)) \o RefDerive(Tail(t))

RefOrder == <<"value", "latency", "throughput", "rtt", "delay">>

RefFail == "<fails>"

RefResolve(t, keys) ==
    IF RefDerive(t) \in keys THEN RefDerive(t)
    ELSE LET present == {r \in DOMAIN RefOrder : RefOrder[r] \in keys}
         IN  IF present = {} THEN RefFail
             ELSE RefOrder[CHOOSE r \in present : \A q \in present : r <= q]

RefField(c) == RefResolve(call[c].in.value_title, DOMAIN PointsOf(c)[1])

NoCandidate(c) == PointsOf(c) # <<>> /\ RefField(c) = RefFail

MissingField(c) ==
    /\ PointsOf(c) # <<>>
    /\ RefField(c) # RefFail
    /\ \E j \in DOMAIN PointsOf(c) : RefField(c) \notin DOMAIN PointsOf(c)[j]

ColorbarsOf(c) == {a \in DOMAIN axs : axs[a].kind = "colorbar" /\ axs[a].figure = axs[call[c].ax].figure}

NoViewportNoTiles(c) ==
    LET a == axs[call[c].ax]
    IN  a.extent = <<>> /\ a.img_factories = 0 /\ a.images = <<>> /\ a.facecolor = ""

NoMarkerNoOverlay(c) ==
    LET a == axs[call[c].ax]
    IN  a.markers = <<>> /\ a.title = <<>> /\ a.texts = <<>> /\ ColorbarsOf(c) = {}

InputFailure(c) ==
    /\ call[c].pc = "raised"
    /\ PointsOf(c) = <<>> \/ NoCandidate(c) \/ MissingField(c)

\* C1, as claimed: with two calls interleaved, the axes of a call (and with it
\* extent, tiles, markers, title, statistics box and colorbar) belong to the
\* figure the call created and returns, and the call lays out that figure.
C1_StepsOnOwnFigure ==
    \A c \in Calls :
        /\ call[c].ax # 0 => axs[call[c].ax].figure = call[c].fig
        /\ call[c].layout_fig # 0 => call[c].layout_fig = call[c].fig
        /\ call[c].pc = "done" => call[c].ret = call[c].fig

\* C2, as claimed: a call that failed because of its input has set no viewport,
\* requested and post-processed no tile layer and drawn no marker or overlay.
C2_FailsBeforeRendering ==
    \A c \in Calls :
        InputFailure(c) => NoViewportNoTiles(c) /\ NoMarkerNoOverlay(c)

\* C2, amended: a call that failed because of its input has drawn no marker and
\* no overlay; only for an empty list has it set no viewport and requested no
\* tiles, for a non-empty list the viewport is set and the tile layer is
\* requested and post-processed by the time it fails.
C2_FailsBeforeMarkers ==
    \A c \in Calls :
        InputFailure(c) =>
            /\ NoMarkerNoOverlay(c)
            /\ PointsOf(c) = <<>> => NoViewportNoTiles(c)
            /\ PointsOf(c) # <<>> =>
                  LET a == axs[call[c].ax]
                  IN  /\ a.extent # <<>>
                      /\ a.img_factories = 1
                      /\ a.facecolor = "white"
                      /\ \A j \in DOMAIN a.images : a.images[j].cmap = "gray"

C2_Witness ==
    \E c \in Calls :
        InputFailure(c) /\ NoCandidate(c) /\ axs[call[c].ax].extent # <<>>

AllSameValue(c) ==
    /\ PointsOf(c) # <<>>
    /\ RefField(c) # RefFail
    /\ ~MissingField(c)
    /\ \A j, k \in DOMAIN PointsOf(c) :
          PointsOf(c)[j][RefField(c)] = PointsOf(c)[k][RefField(c)]

\* C3, as claimed: when all records share one value the call does not fail,
\* and once the markers are drawn there is one per record, all of one colour.
C3_DegenerateRangeHandled ==
    \A c \in Calls :
        Started(c) /\ AllSameValue(c) =>
            /\ call[c].pc # "raised"
            /\ Returned(c) =>
                  LET m == axs[call[c].ax].markers
                  IN  /\ Len(m) = Len(PointsOf(c))
                      /\ \A j, k \in DOMAIN m : m[j].c = m[k].c

\* C4: with an empty record list, or with neither the derived name nor any
\* fallback name among the keys of the first record, the call never gets past
\* the failing statement, returns no figure, and fails with ValueError.
C4_InvalidInputValueError ==
    \A c \in Calls :
        /\ Started(c) /\ PointsOf(c) = <<>> =>
              /\ call[c].pc \in {"figure", "axes", "bounds", "raised"}
              /\ call[c].ret = 0
              /\ call[c].pc = "raised" => call[c].err = "ValueError"
        /\ Started(c) /\ NoCandidate(c) =>
              /\ call[c].pc \in {"figure", "axes", "bounds", "set_extent", "add_image",
                                 "grayscale", "resolve", "raised"}
              /\ call[c].ret = 0
              /\ call[c].pc = "raised" => call[c].err = "ValueError"

C4_Witness ==
    \E c \in Calls :
        call[c].pc = "raised" /\ NoCandidate(c) /\ call[c].err = "ValueError"

\* C5, as claimed: when a later record lacks the field resolved from the first
\* record, the call fails with ValueError.
C5_MissingFieldValueError ==
    \A c \in Calls :
        call[c].pc = "raised" /\ MissingField(c) => call[c].err = "ValueError"

\* C5, amended: when a later record lacks the field resolved from the first
\* record, the call fails with KeyError, raised while the values are collected:
\* no marker is drawn and no figure is returned.
C5_MissingFieldKeyError ==
    \A c \in Calls :
        Started(c) /\ MissingField(c) =>
            /\ call[c].pc \in {"figure", "axes", "bounds", "set_extent", "add_image",
                               "grayscale", "resolve", "values", "raised"}
            /\ call[c].ret = 0
            /\ call[c].pc = "raised" =>
                  call[c].err = "KeyError" /\ axs[call[c].ax].markers = <<>>

C5_Witness ==
    \E c \in Calls :
        call[c].pc = "raised" /\ MissingField(c) /\ call[c].err = "KeyError"

\* every record strictly inside the extent e = [minLon, maxLon, minLat, maxLat],
\* at least padding_meters / 111000 degrees away from each side
Contains(e, points, padding_meters) ==
    \A j \in DOMAIN points :
        LET lon == FromInt(points[j]["lon"])
            lat == FromInt(points[j]["lat"])
            margin == Rat(padding_meters, 111000)
        IN  /\ RLess(e[1], lon) /\ RLess(lon, e[2])
            /\ RLess(e[3], lat) /\ RLess(lat, e[4])
            /\ RLeq(margin, RSub(lon, e[1])) /\ RLeq(margin, RSub(e[2], lon))
            /\ RLeq(margin, RSub(lat, e[3])) /\ RLeq(margin, RSub(e[4], lat))

NonZeroArea(e) == RLess(e[1], e[2]) /\ RLess(e[3], e[4])

\* C6, as claimed: for any padding_meters the extent handed to set_extent
\* strictly contains every record with the padding margin and has non-zero area.
C6_ViewportContains ==
    \A c \in Calls :
        call[c].ax # 0 /\ axs[call[c].ax].extent # <<>> =>
            /\ Contains(axs[call[c].ax].extent, PointsOf(c), call[c].in.padding_meters)
            /\ NonZeroArea(axs[call[c].ax].extent)

\* C6, amended: for any padding_meters > 0 the extent handed to set_extent
\* strictly contains every record with the padding margin and has non-zero area.
C6_ViewportContainsPositivePadding ==
    \A c \in Calls :
        call[c].ax # 0 /\ axs[call[c].ax].extent # <<>> /\ call[c].in.padding_meters > 0 =>
            /\ Contains(axs[call[c].ax].extent, PointsOf(c), call[c].in.padding_meters)
            /\ NonZeroArea(axs[call[c].ax].extent)

C6_Witness ==
    \E c \in Calls :
        /\ call[c].ax # 0
        /\ axs[call[c].ax].extent # <<>>
        /\ call[c].in.padding_meters > 0
        /\ Len(PointsOf(c)) = 1

\* C7: the field the call resolves is the reference result for its value_title
\* and the keys of its first record, and the call fails at resolution exactly
\* when the reference fails; "Latency" with key latency gives latency, "Foo"
\* with no candidate key fails.
C7_ResolutionMatchesReference ==
    \A c \in Calls :
        Started(c) /\ PointsOf(c) # <<>> =>
            LET resolved == \E j \in DOMAIN call[c].trace : call[c].trace[j] = "resolve"
                failed == call[c].pc = "raised" /\ call[c].trace[Len(call[c].trace)] = "grayscale"
            IN  /\ resolved => call[c].value_field = RefField(c) /\ RefField(c) # RefFail
                /\ failed => RefField(c) = RefFail /\ call[c].err = "ValueError"
                /\ ~resolved => call[c].value_field = ""
                /\ /\ resolved
                   /\ call[c].in.value_title = <<"L", "a", "t", "e", "n", "c", "y">>
                   /\ "latency" \in DOMAIN PointsOf(c)[1]
                   => call[c].value_field = "latency"
                /\ /\ call[c].in.value_title = <<"F", "o", "o">>
                   /\ DOMAIN PointsOf(c)[1] \subseteq {"lat", "lon", "signal_strength"}
                   => ~resolved

C7_Witness ==
    \E c \in Calls :
        /\ call[c].value_field = "rtt"
        /\ call[c].in.value_title = <<"F", "o", "o">>
        /\ "delay" \in DOMAIN PointsOf(c)[1]

\* C8, as claimed: for normalized values a <= b in [0, 1] the red component of
\* the colour of a is at most the red component of the colour of b.
C8_RedMonotonic ==
    cm.done /\ RLeq(cm.a, cm.b) => cm.red_a <= cm.red_b

\* C8, amended: for normalized values a <= b in [0, 0.5] the red component of
\* the colour of a is at most the red component of the colour of b.
C8_RedMonotonicLowerHalf ==
    cm.done /\ RLeq(cm.a, cm.b) /\ RLeq(cm.b, Rat(1, 2)) => cm.red_a <= cm.red_b

C8_Witness ==
    cm.done /\ RLess(cm.a, cm.b) /\ RLeq(cm.b, Rat(1, 2)) /\ cm.red_a < cm.red_b

Confirmed(name) == \E k \in DOMAIN stdout : stdout[k] = <<"Map saved as", name>>

Written(name) == \E f \in files : f.name = name

\* C9: a confirmation is on the console only for a file that has been written;
\* a finished save_map has written the file and confirmed it by name; a
\* save_map whose write failed ends in an error with no confirmation.
C9_ConfirmationAfterWrite ==
    /\ \A k \in DOMAIN stdout : Written(stdout[k][2])
    /\ \A c \in Calls :
          /\ call[c].pc = "saved" =>
                Written(call[c].filename.name) /\ Confirmed(call[c].filename.name)
          /\ call[c].pc = "print" =>
                Written(call[c].filename.name) /\ ~Confirmed(call[c].filename.name)
          /\ call[c].pc = "save_raised" =>
                /\ call[c].err \in {"OSError", "ValueError"}
                /\ ~Written(call[c].filename.name)
                /\ ~Confirmed(call[c].filename.name)

C9_Witness ==
    \E c \in Calls : call[c].pc = "saved" /\ Confirmed(call[c].filename.name)

Stage(step) ==
    CASE step = "bounds" -> 1
      [] step = "add_image" -> 2
      [] step = "grayscale" -> 3
      [] step = "marker" -> 4
      [] step \in {"title", "colorbar", "stats"} -> 5
      [] OTHER -> 0

Count(tr, step) == Cardinality({j \in DOMAIN tr : tr[j] = step})

\* C10: the steps a call has taken are in the order bounds, tile request,
\* grayscale, markers, overlays; a marker comes only after the three base
\* steps, an overlay only after one marker per record, and a call that
\* returned has taken every step once and drawn one marker per record.
C10_StrictOrder ==
    \A c \in Calls :
        LET tr == call[c].trace
            n == Len(PointsOf(c))
        IN  /\ \A j, k \in DOMAIN tr :
                  j < k /\ Stage(tr[j]) > 0 /\ Stage(tr[k]) > 0 => Stage(tr[j]) <= Stage(tr[k])
            /\ \A j \in DOMAIN tr :
                  /\ Stage(tr[j]) = 4 =>
                        \A st \in 1..3 : \E k \in 1..(j - 1) : Stage(tr[k]) = st
                  /\ Stage(tr[j]) = 5 =>
                        Cardinality({k \in 1..(j - 1) : tr[k] = "marker"}) = n
            /\ \A step \in {"bounds", "add_image", "grayscale", "title", "colorbar", "stats"} :
                  /\ Count(tr, step) <= 1
                  /\ Returned(c) => Count(tr, step) = 1
            /\ Returned(c) => Count(tr, "marker") = n
            /\ call[c].ax # 0 =>
                  LET a == axs[call[c].ax]
                  IN  /\ Len(a.markers) = Count(tr, "marker")
                      /\ a.img_factories = Count(tr, "add_image")
                      /\ (a.facecolor = "white") = (Count(tr, "grayscale") = 1)
                      /\ (a.title # <<>>) = (Count(tr, "title") = 1)
                      /\ Cardinality(ColorbarsOf(c)) = Count(tr, "colorbar")
                      /\ Len(a.texts) = Count(tr, "stats")

C10_Witness ==
    \E c \in Calls :
        call[c].pc = "done" /\ Len(PointsOf(c)) >= 2 /\ Len(axs[call[c].ax].markers) >= 2

====
